---- MODULE Spec2Model ----
(***************************************************************************)
(* Authentication / authorization core of src/app.py: the users table,    *)
(* bcrypt password hashing, HS256 bearer tokens, the get_current_user and  *)
(* get_current_admin dependencies, the register / login handlers and the   *)
(* item handlers behind them.                                              *)
(* Time is counted in minutes.                                             *)
(***************************************************************************)
EXTENDS Integers, Sequences, FiniteSets, Bags, TLC

VARIABLES
    users,    \* the users table: rows in insertion order
    now,      \* datetime.utcnow(), in minutes
    issued,   \* tokens handed out so far, each with its issue time and requested ttl
    reg,      \* the bag of register requests between their lookup and their commit
    created,  \* per username: how many register calls answered "registered successfully"
    plain,    \* per username: the password its successful register call carried
    items,    \* the items table
    resp      \* the response the last step sent, with the request it answers

vars == <<users, now, issued, reg, created, plain, items, resp>>

-----------------------------------------------------------------------------
(* Bounds of the model *)

\* latest clock value explored (minutes)
MaxTime == 45
\* number of tokens issued in one behaviour
MaxTokens == 1
\* number of register requests served at the same time
NumProcs == 2
\* largest item id handed out
MaxItems == 1
\* number of tokens issued in one behaviour where sessions overlap
MaxSessions == 2

\* the clock is observed on a quarter-hour grid
ClockSteps == {15}

-----------------------------------------------------------------------------
(* Program constants *)

SECRET_KEY == "mysecretkey"
ACCESS_TOKEN_EXPIRE_MINUTES == 30
DefaultExpireMinutes == 15
\* bcrypt reads at most this many bytes of the password
BcryptMaxBytes == 72

-----------------------------------------------------------------------------
(* Input domains *)

Usernames == {"alice", "root"}

\* passwords; the two long ones share their first 72 bytes
Secret1 == "secret1"
Other == "other!"
LongA == "aaaaaaaaaaaaaaaaaaaaaaaaaaaaaaaaaaaaaaaaaaaaaaaaaaaaaaaaaaaaaaaaaaaaaaaab"
LongB == "aaaaaaaaaaaaaaaaaaaaaaaaaaaaaaaaaaaaaaaaaaaaaaaaaaaaaaaaaaaaaaaaaaaaaaaac"
Passwords == {Secret1, Other, LongA, LongB}
Salts == {"saltA", "saltB"}

\* bodies accepted by RegisterInput that the model sends to /register/
RegisterInputs ==
    { [username |-> "alice", password |-> Secret1, role |-> "user"],
      [username |-> "alice", password |-> Other, role |-> "Admin"],
      [username |-> "root", password |-> LongA, role |-> "admin"] }

AttackerKey == "notthekey"

-----------------------------------------------------------------------------
(* Password hashing: CryptContext(schemes=["bcrypt"]) *)

Truncate(p) == IF Len(p) <= BcryptMaxBytes THEN p ELSE SubSeq(p, 1, BcryptMaxBytes)

\* the bcrypt digest is a function of the salt and of the first 72 bytes
BcryptDigest(salt, p) == <<salt, Truncate(p)>>

get_password_hash(password, salt) ==
    [scheme |-> "bcrypt", salt |-> salt, digest |-> BcryptDigest(salt, password)]

\* what pwd_context.verify raises for a stored value it cannot read as a
\* bcrypt hash; "" when it raises nothing
VerifyRaises(hashed_password) ==
    IF hashed_password.scheme # "bcrypt" THEN "hash could not be identified"
    ELSE IF Len(hashed_password.digest) # 2 THEN "malformed bcrypt hash"
    ELSE ""

verify_password(plain_password, hashed_password) ==
    hashed_password.digest = BcryptDigest(hashed_password.salt, plain_password)

-----------------------------------------------------------------------------
(* The users table *)

\* db.query(User).filter(User.username == u).first(): <<>> for None, else <<row>>
FindByUsername(tbl, u) ==
    LET rows == SelectSeq(tbl, LAMBDA r : r.username = u)
    IN IF rows = <<>> THEN <<>> ELSE <<Head(rows)>>

\* the column declared without unique=True
NoUniqueIndex(tbl, u) == FALSE

\* the UNIQUE index on users.username, checked by the INSERT itself
UniqueViolation(tbl, u) == \E i \in 1..Len(tbl) : tbl[i].username = u

\* an insert that overwrites the row already stored under the username
InsertUser_Upsert(tbl, u, h, r) ==
    IF UniqueViolation(tbl, u)
    THEN [ok |-> TRUE,
          tbl |-> [i \in 1..Len(tbl) |->
                      IF tbl[i].username = u
                      THEN [tbl[i] EXCEPT !.hashed_password = h, !.role = r]
                      ELSE tbl[i]]]
    ELSE [ok |-> TRUE,
          tbl |-> Append(tbl, [id |-> Len(tbl) + 1, username |-> u,
                               hashed_password |-> h, role |-> r])]

\* db.add(new_user); db.commit()
InsertUser(tbl, u, h, r) ==
    IF UniqueViolation(tbl, u)
    THEN [ok |-> FALSE, tbl |-> tbl]
    ELSE [ok |-> TRUE,
          tbl |-> Append(tbl, [id |-> Len(tbl) + 1, username |-> u,
                               hashed_password |-> h, role |-> r])]

-----------------------------------------------------------------------------
(* Tokens: jwt.encode / jwt.decode with HS256 *)

\* HMAC over the encoded claims: equal only for equal key and equal claims
Sign(claims, key) == <<key, claims>>

JwtEncode(claims, key) == [kind |-> "jwt", claims |-> claims, sig |-> Sign(claims, key)]

\* a bearer string that does not parse as a JWT, and the absent Authorization header
Malformed == [kind |-> "malformed"]
NoToken == [kind |-> "absent"]

\* data without a "sub" key
NoSub == "<no sub>"

\* expires_delta is <<>> for None and <<d>> for timedelta(minutes=d)
Truthy(expires_delta) == expires_delta # <<>> /\ expires_delta[1] # 0

create_access_token(sub, expires_delta, t) ==
    LET expire == IF Truthy(expires_delta)
                  THEN t + expires_delta[1]
                  ELSE t + DefaultExpireMinutes
    IN JwtEncode([sub |-> sub, exp |-> expire], SECRET_KEY)

\* jose validates the exp claim with: if exp < now: raise ExpiredSignatureError
ExpClaimExpired(exp, t) == exp < t

\* decoding with the signature check switched off
JwtDecodeUnverified(token, key, t) ==
    IF token.kind # "jwt" THEN [err |-> "MalformedToken"]
    ELSE IF ExpClaimExpired(token.claims.exp, t) THEN [err |-> "Expired"]
    ELSE [err |-> "ok", payload |-> token.claims]

\* jwt.decode(token, key): signature first, then the registered claims
JwtDecode(token, key, t) ==
    IF token.kind # "jwt" THEN [err |-> "MalformedToken"]
    ELSE IF token.sig # Sign(token.claims, key) THEN [err |-> "BadSignature"]
    ELSE IF ExpClaimExpired(token.claims.exp, t) THEN [err |-> "Expired"]
    ELSE [err |-> "ok", payload |-> token.claims]

-----------------------------------------------------------------------------
(* Responses *)

credentials_exception == [status |-> 401, detail |-> "Could not validate credentials"]
not_authenticated == [status |-> 401, detail |-> "Not authenticated"]
forbidden_exception ==
    [status |-> 403, detail |-> "You are not authorized to perform this action."]
duplicate_username == [status |-> 400, detail |-> "Username already registered"]
invalid_credentials == [status |-> 400, detail |-> "Incorrect username or password"]
registered_ok == [status |-> 200, detail |-> "User registered successfully"]

\* a step that sends nothing to a client
NoResponse == [op |-> "none"]

IntegrityError == "UNIQUE constraint failed: users.username"

global_exception_handler(exc) ==
    [status |-> 500, detail |-> "An unexpected error occurred: " \o exc]

-----------------------------------------------------------------------------
(* Dependencies of the protected routes *)

\* which of the verifier's failures a token runs into at time t, if any
TokenErrorOf(token, t) ==
    IF token.kind = "absent" THEN "NoToken"
    ELSE LET d == JwtDecode(token, SECRET_KEY, t)
         IN IF d.err # "ok" THEN d.err
            ELSE IF d.payload.sub = NoSub THEN "MissingSubject"
            ELSE "ok"

\* a verifier that tells the client when the token has expired
get_current_user_TellsExpiry(token, tbl, t) ==
    IF token.kind = "absent" THEN not_authenticated
    ELSE LET d == JwtDecode(token, SECRET_KEY, t)
         IN IF d.err = "Expired" THEN [status |-> 401, detail |-> "Token has expired"]
            ELSE IF d.err # "ok" THEN credentials_exception
            ELSE IF d.payload.sub = NoSub THEN credentials_exception
            ELSE LET user == FindByUsername(tbl, d.payload.sub)
                 IN IF user = <<>> THEN credentials_exception
                    ELSE [status |-> 200, detail |-> "ok", user |-> user[1]]

\* a verifier that takes the identity from the token when the table has no row
get_current_user_TrustsToken(token, tbl, t) ==
    IF token.kind = "absent" THEN not_authenticated
    ELSE LET d == JwtDecode(token, SECRET_KEY, t)
         IN IF d.err # "ok" THEN credentials_exception
            ELSE IF d.payload.sub = NoSub THEN credentials_exception
            ELSE LET user == FindByUsername(tbl, d.payload.sub)
                 IN IF user = <<>>
                    THEN [status |-> 200, detail |-> "ok",
                          user |-> [id |-> 0, username |-> d.payload.sub,
                                    hashed_password |-> get_password_hash("", "saltA"),
                                    role |-> "user"]]
                    ELSE [status |-> 200, detail |-> "ok", user |-> user[1]]

\* a verifier that honours only the newest token of each subject
get_current_user_SingleSession(token, tbl, t) ==
    IF token.kind = "absent" THEN not_authenticated
    ELSE LET d == JwtDecode(token, SECRET_KEY, t)
         IN IF d.err # "ok" THEN credentials_exception
            ELSE IF d.payload.sub = NoSub THEN credentials_exception
            ELSE IF \E i \in issued : /\ i.tok.claims.sub = d.payload.sub
                                       /\ i.tok.claims.exp > d.payload.exp
            THEN credentials_exception
            ELSE LET user == FindByUsername(tbl, d.payload.sub)
                 IN IF user = <<>> THEN credentials_exception
                    ELSE [status |-> 200, detail |-> "ok", user |-> user[1]]

\* the lookup without its filter on the subject
get_current_user_AnyRow(token, tbl, t) ==
    IF token.kind = "absent" THEN not_authenticated
    ELSE LET d == JwtDecode(token, SECRET_KEY, t)
         IN IF d.err # "ok" THEN credentials_exception
            ELSE IF d.payload.sub = NoSub THEN credentials_exception
            ELSE IF tbl = <<>> THEN credentials_exception
            ELSE [status |-> 200, detail |-> "ok", user |-> tbl[1]]

\* OAuth2PasswordBearer, then get_current_user
get_current_user(token, tbl, t) ==
    IF token.kind = "absent" THEN not_authenticated
    ELSE LET d == JwtDecode(token, SECRET_KEY, t)
         IN IF d.err # "ok" THEN credentials_exception
            ELSE IF d.payload.sub = NoSub THEN credentials_exception
            ELSE LET user == FindByUsername(tbl, d.payload.sub)
                 IN IF user = <<>> THEN credentials_exception
                    ELSE [status |-> 200, detail |-> "ok", user |-> user[1]]

\* the role compared without regard to case
IsAdminAnyCase(role) == role \in {"admin", "Admin", "ADMIN"}

\* current_user.role != "admin"
IsAdmin(role) == role = "admin"

get_current_admin(token, tbl, t) ==
    LET current_user == get_current_user(token, tbl, t)
    IN IF current_user.status # 200 THEN current_user
       ELSE IF ~IsAdmin(current_user.user.role) THEN forbidden_exception
       ELSE current_user

-----------------------------------------------------------------------------
(* What a client can present as a bearer token *)

IssuedTokens == {i.tok : i \in issued}

\* an issued token with its signature, its subject or its expiry altered
Tampered(tok) ==
    {[tok EXCEPT !.sig = Sign(tok.claims, AttackerKey)]}
    \cup {[tok EXCEPT !.claims.sub = u] : u \in Usernames \ {tok.claims.sub}}
    \cup {[tok EXCEPT !.claims.exp = tok.claims.exp + ACCESS_TOKEN_EXPIRE_MINUTES]}

TamperedTokens == UNION {Tampered(tok) : tok \in IssuedTokens}

Presentable == IssuedTokens \cup TamperedTokens \cup {Malformed, NoToken}

-----------------------------------------------------------------------------
(* Initial state: empty database, no token issued *)

Init ==
    /\ users = <<>>
    /\ now = 0
    /\ issued = {}
    /\ reg = EmptyBag
    /\ created = [u \in Usernames |-> 0]
    /\ plain = [u \in Usernames |-> ""]
    /\ items = {}
    /\ resp = NoResponse

-----------------------------------------------------------------------------
(* POST /register/ : the lookup, then hash + insert + commit *)

\* whether the table holds a row for u (used to describe requests, not by the code)
Present(tbl, u) == \E i \in 1..Len(tbl) : tbl[i].username = u

\* the handler without its lookup
AlreadyRegisteredSkipped(tbl, u) == FALSE

\* user = db.query(User)...first(); if user:
AlreadyRegistered(tbl, u) == FindByUsername(tbl, u) # <<>>

RegisterLookup(input) ==
    /\ BagCardinality(reg) < NumProcs
    /\ IF AlreadyRegistered(users, input.username)
       THEN /\ resp' = [op |-> "register", username |-> input.username,
                        present |-> Present(users, input.username),
                        race |-> FALSE, added |-> 0] @@ duplicate_username
            /\ reg' = reg
       ELSE /\ reg' = reg (+) SetToBag({[input |-> input,
                                         present |-> Present(users, input.username)]})
            /\ resp' = NoResponse
    /\ UNCHANGED <<users, now, issued, created, plain, items>>

RegisterCommit(call, salt) ==
    /\ BagIn(call, reg)
    /\ LET input == call.input
           hashed_password == get_password_hash(input.password, salt)
           ins == InsertUser(users, input.username, hashed_password, input.role)
           about == [op |-> "register", username |-> input.username,
                     present |-> call.present,
                     race |-> ~call.present /\ Present(users, input.username),
                     added |-> Len(ins.tbl) - Len(users)]
       IN IF ins.ok
          THEN /\ users' = ins.tbl
               /\ created' = [created EXCEPT ![input.username] = @ + 1]
               /\ plain' = [plain EXCEPT ![input.username] = input.password]
               /\ resp' = about @@ registered_ok
          ELSE /\ users' = users
               /\ created' = created
               /\ plain' = plain
               /\ resp' = about @@ global_exception_handler(IntegrityError)
    /\ reg' = reg (-) SetToBag({call})
    /\ UNCHANGED <<now, issued, items>>

-----------------------------------------------------------------------------
(* POST /login/ *)

LoginResult(tbl, username, password, t) ==
    LET user == FindByUsername(tbl, username)
    IN IF user = <<>> THEN invalid_credentials
       ELSE IF VerifyRaises(user[1].hashed_password) # ""
       THEN global_exception_handler(VerifyRaises(user[1].hashed_password))
       ELSE IF ~verify_password(password, user[1].hashed_password)
       THEN invalid_credentials
       ELSE [status |-> 200, detail |-> "bearer",
             access_token |-> create_access_token(user[1].username,
                                                  <<ACCESS_TOKEN_EXPIRE_MINUTES>>, t)]

\* the handler, issuing at most limit tokens in one behaviour
LoginUpTo(username, password, limit) ==
    LET r == LoginResult(users, username, password, now)
    IN /\ r.status = 200 => Cardinality(issued) < limit
       /\ resp' = [op |-> "login", username |-> username, password |-> password,
                   known |-> Present(users, username), at |-> now] @@ r
       /\ issued' = IF r.status = 200
                    THEN issued \cup {[tok |-> r.access_token, iat |-> now,
                                       ttl |-> <<ACCESS_TOKEN_EXPIRE_MINUTES>>,
                                       flow |-> "login", user |-> username]}
                    ELSE issued
       /\ UNCHANGED <<users, now, reg, created, plain, items>>

Login(username, password) == LoginUpTo(username, password, MaxTokens)

-----------------------------------------------------------------------------
(* Protected requests *)

\* a route depending on get_current_user
AuthenticateRequest(token) ==
    /\ resp' = [op |-> "auth", token |-> token, at |-> now,
                 identity |-> get_current_user(token, users, now)]
                 @@ get_current_user(token, users, now)
    /\ UNCHANGED <<users, now, issued, reg, created, plain, items>>

\* a route depending on get_current_admin
AdminRequest(token) ==
    /\ resp' = [op |-> "admin", token |-> token, at |-> now,
                 identity |-> get_current_user(token, users, now)]
                 @@ get_current_admin(token, users, now)
    /\ UNCHANGED <<users, now, issued, reg, created, plain, items>>

-----------------------------------------------------------------------------
(* The items table and its handlers *)

\* bodies accepted by ItemInput
ItemInputs ==
    { [name |-> "pen", description |-> "blue"],
      [name |-> "ink", description |-> "black"] }

\* the item_id path parameter
ItemIds == 1..MaxItems

item_not_found == [status |-> 404, detail |-> "Item not found"]

\* db.query(Item).filter(Item.id == item_id).first(): <<>> for None, else <<row>>
FindItem(tbl, item_id) ==
    IF \E r \in tbl : r.id = item_id
    THEN <<CHOOSE r \in tbl : r.id = item_id>>
    ELSE <<>>

\* the id SQLite gives an INTEGER PRIMARY KEY row: one more than the largest
NextItemId(tbl) ==
    IF tbl = {} THEN 1
    ELSE (CHOOSE r \in tbl : \A q \in tbl : q.id <= r.id).id + 1

\* POST /items/
create_item(token, item) ==
    LET current_user == get_current_user(token, users, now)
        about == [op |-> "create_item", token |-> token, at |-> now, item_id |-> 0,
                  found |-> FALSE, identity |-> current_user]
        db_item == [id |-> NextItemId(items), name |-> item.name,
                    description |-> item.description]
    IN /\ current_user.status = 200 => NextItemId(items) <= MaxItems
       /\ IF current_user.status # 200
          THEN /\ items' = items
               /\ resp' = about @@ current_user
          ELSE /\ items' = items \cup {db_item}
               /\ resp' = about @@ [status |-> 200,
                                    detail |-> "Item created successfully",
                                    item |-> db_item]
       /\ UNCHANGED <<users, now, issued, reg, created, plain>>

\* GET /items/{item_id}
read_item(token, item_id) ==
    LET current_user == get_current_user(token, users, now)
        item == FindItem(items, item_id)
        about == [op |-> "read_item", token |-> token, at |-> now, item_id |-> item_id,
                  found |-> item # <<>>, identity |-> current_user]
    IN /\ resp' = IF current_user.status # 200 THEN about @@ current_user
                  ELSE IF item = <<>> THEN about @@ item_not_found
                  ELSE about @@ [status |-> 200, detail |-> "ok", item |-> item[1]]
       /\ UNCHANGED <<users, now, issued, reg, created, plain, items>>

\* PUT /items/{item_id}
update_item(token, item_id, item) ==
    LET current_user == get_current_user(token, users, now)
        item_record == FindItem(items, item_id)
        about == [op |-> "update_item", token |-> token, at |-> now, item_id |-> item_id,
                  found |-> item_record # <<>>, identity |-> current_user]
        updated == [id |-> item_id, name |-> item.name,
                    description |-> item.description]
    IN /\ IF current_user.status # 200
          THEN /\ items' = items
               /\ resp' = about @@ current_user
          ELSE IF item_record = <<>>
          THEN /\ items' = items
               /\ resp' = about @@ item_not_found
          ELSE /\ items' = (items \ {item_record[1]}) \cup {updated}
               /\ resp' = about @@ [status |-> 200,
                                    detail |-> "Item updated successfully",
                                    item |-> updated]
       /\ UNCHANGED <<users, now, issued, reg, created, plain>>

\* DELETE /items/{item_id}
delete_item(token, item_id) ==
    LET current_user == get_current_admin(token, users, now)
        item == FindItem(items, item_id)
        about == [op |-> "delete_item", token |-> token, at |-> now, item_id |-> item_id,
                  found |-> item # <<>>,
                  identity |-> get_current_user(token, users, now)]
    IN /\ IF current_user.status # 200
          THEN /\ items' = items
               /\ resp' = about @@ [status |-> current_user.status,
                                    detail |-> current_user.detail]
          ELSE IF item = <<>>
          THEN /\ items' = items
               /\ resp' = about @@ item_not_found
          ELSE /\ items' = items \ {item[1]}
               /\ resp' = about @@ [status |-> 200,
                                    detail |-> "Item deleted successfully"]
       /\ UNCHANGED <<users, now, issued, reg, created, plain>>

-----------------------------------------------------------------------------
(* Time passes *)

Tick ==
    /\ \E d \in ClockSteps : now + d <= MaxTime /\ now' = now + d
    /\ resp' = NoResponse
    /\ UNCHANGED <<users, issued, reg, created, plain, items>>

-----------------------------------------------------------------------------

Next ==
    \/ \E input \in RegisterInputs : RegisterLookup(input)
    \/ \E call \in BagToSet(reg), salt \in Salts : RegisterCommit(call, salt)
    \/ \E u \in Usernames, pw \in Passwords : Login(u, pw)
    \/ \E token \in Presentable : AuthenticateRequest(token)
    \/ \E token \in Presentable : AdminRequest(token)
    \/ Tick

Spec == Init /\ [][Next]_vars

-----------------------------------------------------------------------------
(* The token issuer called on its own: create_access_token with any ttl *)

Deltas == {<<>>, <<0>>, <<DefaultExpireMinutes>>, <<ACCESS_TOKEN_EXPIRE_MINUTES>>}

IssueDirect(sub, expires_delta) ==
    /\ Cardinality(issued) < MaxTokens
    /\ LET tok == create_access_token(sub, expires_delta, now)
       IN /\ issued' = issued \cup {[tok |-> tok, iat |-> now, ttl |-> expires_delta,
                                      flow |-> "direct", user |-> sub]}
          /\ resp' = [op |-> "issue", at |-> now, status |-> 200, detail |-> "token",
                      access_token |-> tok]
    /\ UNCHANGED <<users, now, reg, created, plain, items>>

\* the database as one earlier register call left it
InitIssue ==
    /\ users = InsertUser(<<>>, "alice", get_password_hash(Secret1, "saltA"), "user").tbl
    /\ now = 0
    /\ issued = {}
    /\ reg = EmptyBag
    /\ created = [u \in Usernames |-> IF u = "alice" THEN 1 ELSE 0]
    /\ plain = [u \in Usernames |-> IF u = "alice" THEN Secret1 ELSE ""]
    /\ items = {}
    /\ resp = NoResponse

NextIssue ==
    \/ \E sub \in Usernames \cup {NoSub}, d \in Deltas : IssueDirect(sub, d)
    \/ \E u \in Usernames, pw \in Passwords : Login(u, pw)
    \/ \E token \in Presentable : AuthenticateRequest(token)
    \/ Tick

SpecIssue == InitIssue /\ [][NextIssue]_vars

-----------------------------------------------------------------------------
(* The verifier against tokens of every kind, around one late registration *)

NextVerify ==
    \/ \E sub \in Usernames \cup {NoSub} : IssueDirect(sub, <<DefaultExpireMinutes>>)
    \/ \E token \in Presentable : AuthenticateRequest(token)
    \/ \E token \in Presentable : AdminRequest(token)
    \/ \E input \in {i \in RegisterInputs : i.username = "root"} : RegisterLookup(input)
    \/ \E call \in BagToSet(reg), salt \in Salts : RegisterCommit(call, salt)
    \/ Tick

SpecVerify == InitIssue /\ [][NextVerify]_vars

-----------------------------------------------------------------------------
(* Login against a users table whose password column was written by hand *)

\* the column holding the password itself, and a bcrypt string cut short
PlaintextHash == [scheme |-> "plaintext", salt |-> "", digest |-> <<"", Secret1>>]
TruncatedHash == [scheme |-> "bcrypt", salt |-> "saltA", digest |-> <<"saltA">>]

StoredHashes ==
    {get_password_hash(Secret1, salt) : salt \in Salts} \cup {PlaintextHash, TruncatedHash}

InitHash ==
    /\ \E h \in StoredHashes : users = InsertUser(<<>>, "alice", h, "user").tbl
    /\ now = 0
    /\ issued = {}
    /\ reg = EmptyBag
    /\ created = [u \in Usernames |-> IF u = "alice" THEN 1 ELSE 0]
    /\ plain = [u \in Usernames |-> IF u = "alice" THEN Secret1 ELSE ""]
    /\ items = {}
    /\ resp = NoResponse

NextHash ==
    \/ \E u \in Usernames, pw \in Passwords : Login(u, pw)
    \/ \E token \in Presentable : AuthenticateRequest(token)
    \/ Tick

SpecHash == InitHash /\ [][NextHash]_vars

-----------------------------------------------------------------------------
(* The item routes, with registration and login going on around them *)

NextItems ==
    \/ \E input \in {i \in RegisterInputs : i.username = "root"} : RegisterLookup(input)
    \/ \E call \in BagToSet(reg), salt \in Salts : RegisterCommit(call, salt)
    \/ \E u \in Usernames, pw \in {Secret1, LongA} : Login(u, pw)
    \/ \E token \in Presentable, item \in ItemInputs : create_item(token, item)
    \/ \E token \in Presentable, item_id \in ItemIds : read_item(token, item_id)
    \/ \E token \in Presentable, item_id \in ItemIds, item \in ItemInputs :
           update_item(token, item_id, item)
    \/ \E token \in Presentable, item_id \in ItemIds : delete_item(token, item_id)
    \/ Tick

SpecItems == InitIssue /\ [][NextItems]_vars

-----------------------------------------------------------------------------
(* Every operation of the application, with the tokens a client was given *)

Given == IssuedTokens \cup {NoToken, Malformed}

NextFrame ==
    \/ \E input \in {i \in RegisterInputs : i.username = "root"} : RegisterLookup(input)
    \/ \E call \in BagToSet(reg), salt \in Salts : RegisterCommit(call, salt)
    \/ \E u \in Usernames, pw \in {Secret1, LongA} : Login(u, pw)
    \/ \E token \in Given : AuthenticateRequest(token)
    \/ \E token \in Given : AdminRequest(token)
    \/ \E token \in Given, item \in ItemInputs : create_item(token, item)
    \/ \E token \in Given, item_id \in ItemIds : read_item(token, item_id)
    \/ \E token \in Given, item_id \in ItemIds, item \in ItemInputs :
           update_item(token, item_id, item)
    \/ \E token \in Given, item_id \in ItemIds : delete_item(token, item_id)
    \/ Tick

SpecFrame == InitIssue /\ [][NextFrame]_vars

-----------------------------------------------------------------------------
(* Several sessions at once: logins, a registration and item creation *)

NextSessions ==
    \/ \E u \in Usernames, pw \in {Secret1, LongA} : LoginUpTo(u, pw, MaxSessions)
    \/ \E input \in {i \in RegisterInputs : i.username = "root"} : RegisterLookup(input)
    \/ \E call \in BagToSet(reg), salt \in Salts : RegisterCommit(call, salt)
    \/ \E token \in Given : AuthenticateRequest(token)
    \/ \E token \in Given, item \in ItemInputs : create_item(token, item)
    \/ Tick

SpecSessions == InitIssue /\ [][NextSessions]_vars

-----------------------------------------------------------------------------
(* Properties *)

RowsOf(u) == {i \in 1..Len(users) : users[i].username = u}

ProtectedOps == {"auth", "admin"}

ExpiryOf(i) == i.tok.claims.exp

\* C1: no two rows of the users table share a username, and a register call
\* whose username was in the table when the call looked it up is answered
\* 400 "Username already registered" and adds no row.
C1_UniqueAndDuplicateRejected ==
    /\ \A i, j \in 1..Len(users) : users[i].username = users[j].username => i = j
    /\ (resp.op = "register" /\ resp.present)
           => /\ resp.status = 400
              /\ resp.detail = "Username already registered"
              /\ resp.added = 0

C1_Witness ==
    /\ resp.op = "register"
    /\ resp.present
    /\ resp.status = 400
    /\ RowsOf(resp.username) # {}

\* C2: of the register calls carrying one username, however their lookup and
\* commit steps interleave, at most one is answered with success and at most
\* one row is created; a call that passed its lookup and finds the username
\* taken at commit is refused by the table and adds nothing.
C2_AtMostOneSucceeds ==
    /\ \A u \in Usernames :
           /\ Cardinality(RowsOf(u)) <= 1
           /\ created[u] <= 1
           /\ created[u] = Cardinality(RowsOf(u))
    /\ (resp.op = "register" /\ resp.race) => (resp.status # 200 /\ resp.added = 0)

C2_Witness ==
    /\ resp.op = "register"
    /\ resp.race
    /\ resp.status = 500
    /\ created[resp.username] = 1

\* C3: a protected request is authenticated only if the token's signature
\* matches the server secret and the time of the request is strictly before
\* the token's expiry.
C3_ValidOnlyBeforeExpiry ==
    (resp.op \in ProtectedOps /\ resp.identity.status = 200)
        => /\ resp.token.kind = "jwt"
           /\ resp.token.sig = Sign(resp.token.claims, SECRET_KEY)
           /\ resp.at < resp.token.claims.exp

\* C4: a token issued with ttl = 0 expires at its issue time and is rejected
\* at the issue time and at every later time.
C4_ZeroTtlExpired ==
    \A i \in issued :
        i.ttl = <<0>>
            => /\ ExpiryOf(i) = i.iat
               /\ get_current_user(i.tok, users, now).status = 401

\* C5: a login with a registered username and a password other than the
\* registered one gets the same status and message as a login with a
\* username that has no row.
C5_SameOutcome ==
    \A v \in Usernames, q \in Passwords :
        (/\ resp.op = "login"
         /\ resp.known
         /\ resp.password # plain[resp.username]
         /\ ~Present(users, v))
            => /\ resp.status = LoginResult(users, v, q, now).status
               /\ resp.detail = LoginResult(users, v, q, now).detail

\* C6: a token made from an issued one by altering its signature, its subject
\* or its expiry fails decoding with BadSignature and every protected request
\* bearing it is answered 401, at any time and whatever the table holds.
C6_TamperedRejected ==
    /\ \A t \in TamperedTokens :
           /\ JwtDecode(t, SECRET_KEY, now).err = "BadSignature"
           /\ get_current_user(t, users, now).status = 401
           /\ get_current_admin(t, users, now).status = 401
    /\ (resp.op \in ProtectedOps /\ resp.token \in TamperedTokens) => resp.status = 401

C6_Witness ==
    /\ resp.op = "auth"
    /\ resp.token \in TamperedTokens
    /\ resp.status = 401
    /\ Present(users, resp.token.claims.sub)
    /\ resp.at < resp.token.claims.exp

\* C7: for an authenticated identity the admin-gated request is authorized
\* exactly when the stored role is "admin" and is answered 403 for every
\* other role; a request that only needs authentication is authorized for an
\* unexpired issued token of an existing user whatever the role.
C7_AdminGate ==
    /\ (resp.op = "admin" /\ resp.identity.status = 200)
           => /\ resp.status = 200 <=> resp.identity.user.role = "admin"
              /\ resp.identity.user.role # "admin" => resp.status = 403
    /\ (/\ resp.op = "auth"
        /\ resp.token \in IssuedTokens
        /\ resp.at < resp.token.claims.exp
        /\ Present(users, resp.token.claims.sub))
           => resp.status = 200

C7_Witness ==
    /\ resp.op = "admin"
    /\ resp.identity.status = 200
    /\ resp.identity.user.role = "Admin"
    /\ resp.status = 403

\* C8: login with a registered username and its password returns a token,
\* and that token presented before its expiry is verified with the subject
\* being exactly the username that logged in.
C8_LoginRoundTrip ==
    /\ \A u \in Usernames :
           Present(users, u) => LoginResult(users, u, plain[u], now).status = 200
    /\ \A i \in issued :
           i.flow = "login"
               => /\ now < ExpiryOf(i)
                      => LET r == get_current_user(i.tok, users, now)
                         IN r.status = 200 /\ r.user.username = i.user
                  /\ (resp.op = "auth" /\ resp.token = i.tok /\ resp.at < ExpiryOf(i))
                      => resp.status = 200 /\ resp.user.username = i.user

C8_Witness ==
    /\ resp.op = "auth"
    /\ resp.token \in IssuedTokens
    /\ resp.at < resp.token.claims.exp
    /\ resp.status = 200
    /\ Len(users) = 2
    /\ resp.user.username = users[2].username

\* C9: after a successful register(u, p, role), login(u, q) returns a token
\* exactly when q = p, and a login for a username without a row returns none.
C9_LoginIffPassword ==
    resp.op = "login"
        => IF resp.known
           THEN resp.status = 200 <=> resp.password = plain[resp.username]
           ELSE resp.status # 200

\* C10: every issued token's expiry is its issue time plus the ttl asked for,
\* plus 15 minutes when none was given, and plus 30 minutes for a token of
\* the login flow.
C10_ExpiryIsIssuePlusTtl ==
    \A i \in issued :
        /\ ExpiryOf(i) = i.iat + (IF i.ttl = <<>> THEN DefaultExpireMinutes ELSE i.ttl[1])
        /\ i.flow = "login" => ExpiryOf(i) = i.iat + ACCESS_TOKEN_EXPIRE_MINUTES

\* what the data model calls a valid token at time t: signed with the server
\* secret, carrying a subject, and t strictly before its expiry
ValidToken(token, t) ==
    /\ token.kind = "jwt"
    /\ token.sig = Sign(token.claims, SECRET_KEY)
    /\ token.claims.sub # NoSub
    /\ t < token.claims.exp

\* C11: a protected request ends in exactly one of Authorized (200),
\* Forbidden (403) and Unauthorized (401); a request with no token or with a
\* token that is not valid ends in 401, also on the admin-gated route, and
\* 403 is answered only to a request whose token was verified.
C11_InvalidTokenUnauthorized ==
    resp.op \in ProtectedOps
        => /\ resp.status \in {200, 401, 403}
           /\ ~ValidToken(resp.token, resp.at) => resp.status = 401
           /\ resp.status = 403
                  => /\ resp.op = "admin"
                     /\ resp.identity.status = 200
                     /\ ValidToken(resp.token, resp.at)

\* the errors that reach the outermost handler
InternalErrors == {IntegrityError, "database is locked"}

\* C14: the body of a 500 response is the same whatever the internal error
\* was: it carries nothing of the exception.
C14_GenericFailure ==
    (resp.op # "none" /\ resp.status = 500)
        => \A exc \in InternalErrors : resp.detail = global_exception_handler(exc).detail

\* C17: a register call that does not create the row, whether the duplicate
\* is found by its lookup or only by the insert at commit, is answered
\* 400 "Username already registered", never a generic internal failure.
C17_DuplicateAlways400 ==
    (resp.op = "register" /\ resp.added = 0)
        => /\ resp.status = 400
           /\ resp.detail = "Username already registered"

TokenErrors == {"BadSignature", "Expired", "MissingSubject", "MalformedToken"}

\* C12 as stated: the four kinds of verification failure get the same 401
\* response, and the verifier's result still tells which kind occurred.
C12_VariantsDistinguishable ==
    \A t1, t2 \in Presentable :
        (/\ TokenErrorOf(t1, now) \in TokenErrors
         /\ TokenErrorOf(t2, now) \in TokenErrors
         /\ TokenErrorOf(t1, now) # TokenErrorOf(t2, now))
            => /\ get_current_user(t1, users, now).status = 401
               /\ get_current_user(t2, users, now).status = 401
               /\ get_current_user(t1, users, now) # get_current_user(t2, users, now)

\* C12 (amended): a token failing with BadSignature, Expired, MissingSubject
\* or MalformedToken gets the one 401 "Could not validate credentials", and
\* that is all the verifier returns: its result is the same for the four.
C12_FailuresCollapse ==
    /\ \A t \in Presentable :
           TokenErrorOf(t, now) \in TokenErrors
               => get_current_user(t, users, now) = credentials_exception
    /\ (resp.op \in ProtectedOps /\ TokenErrorOf(resp.token, resp.at) \in TokenErrors)
           => /\ resp.identity = credentials_exception
              /\ resp.status = 401
              /\ resp.detail = "Could not validate credentials"

C12_Witness ==
    /\ resp.op = "auth"
    /\ TokenErrorOf(resp.token, resp.at) = "MissingSubject"
    /\ resp.status = 401
    /\ \E t \in Presentable : TokenErrorOf(t, now) = "BadSignature"

\* C18: a token with a valid signature and an unexpired expiry whose subject
\* has no row in the users table is answered 401 on both kinds of protected
\* route, and the user the admin check looks at is the row stored under the
\* token's subject at the time of the request, with that row's role.
C18_ResolvedFromStore ==
    /\ \A t \in Presentable :
           (ValidToken(t, now) /\ ~Present(users, t.claims.sub))
               => /\ get_current_user(t, users, now) = credentials_exception
                  /\ get_current_admin(t, users, now) = credentials_exception
    /\ (/\ resp.op \in ProtectedOps
        /\ ValidToken(resp.token, resp.at)
        /\ ~Present(users, resp.token.claims.sub))
           => resp.status = 401
    /\ (resp.op = "admin" /\ resp.identity.status = 200)
           => /\ <<resp.identity.user>> = FindByUsername(users, resp.token.claims.sub)
              /\ resp.status = 200 <=> users[resp.identity.user.id].role = "admin"

C18_Witness ==
    /\ resp.op = "admin"
    /\ resp.token \in IssuedTokens
    /\ ValidToken(resp.token, resp.at)
    /\ ~Present(users, resp.token.claims.sub)
    /\ resp.status = 401
    /\ users # <<>>

\* a value that get_password_hash can have produced
WellFormedHash(h) == \E p \in Passwords, salt \in Salts : h = get_password_hash(p, salt)

\* C16: a login for a user whose stored hash is malformed is answered
\* 400 "Incorrect username or password": verify returns false and raises
\* nothing, so no internal failure is reported.
C16_VerifyFailsClosed ==
    (resp.op = "login" /\ resp.known)
        => LET stored == FindByUsername(users, resp.username)[1].hashed_password
           IN ~WellFormedHash(stored)
                  => /\ VerifyRaises(stored) = ""
                     /\ resp.status = 400
                     /\ resp.detail = invalid_credentials.detail

ItemOps == {"create_item", "read_item", "update_item", "delete_item"}

\* C13: the users table changes only by a register call answered with
\* success, which appends one row for its username and leaves the rows
\* already there as they were; a login, a protected request or an item
\* request changes nothing in it.
C13_UsersOnlyAppended ==
    [][ /\ users' # users
            => /\ resp'.op = "register"
               /\ resp'.status = 200
               /\ Len(users') = Len(users) + 1
               /\ SubSeq(users', 1, Len(users)) = users
               /\ users'[Len(users')].username = resp'.username
               /\ ~Present(users, resp'.username)
        /\ resp'.op \in {"login"} \cup ProtectedOps \cup ItemOps => users' = users
      ]_vars

C13_Witness ==
    /\ resp.op = "register"
    /\ resp.status = 200
    /\ Len(users) = 2
    /\ items # {}
    /\ issued # {}

\* C15: every token issued by login authenticates the user it was issued to
\* at every time before its own expiry, whatever logins, registrations and
\* item requests happened since and whatever other tokens that user holds.
C15_NeverRevoked ==
    /\ \A i \in issued :
           now < ExpiryOf(i)
               => /\ get_current_user(i.tok, users, now).status = 200
                  /\ get_current_user(i.tok, users, now).user.username = i.user
    /\ (/\ resp.op \in ProtectedOps \cup ItemOps
        /\ resp.token \in IssuedTokens
        /\ resp.at < resp.token.claims.exp)
           => /\ resp.identity.status = 200
              /\ resp.identity.user.username = resp.token.claims.sub

C15_Witness ==
    /\ resp.op = "auth"
    /\ resp.status = 200
    /\ \E i, j \in issued :
           /\ i.user = j.user
           /\ i.iat < j.iat
           /\ now < ExpiryOf(i)
           /\ resp.token = i.tok
    /\ items # {}
    /\ Len(users) = 2

\* the stored role of the subject of a token
StoredRole(token) == FindByUsername(users, token.claims.sub)[1].role

\* C19: the items table changes only by an item request bearing a valid,
\* unexpired token of an existing user, a row disappears only when that
\* user's stored role is "admin", and an item request answered 401, 403 or
\* 404 leaves the table as it was.
C19_ItemsChangeOnlyAuthorized ==
    [][ /\ items' # items
            => /\ resp'.op \in ItemOps
               /\ resp'.status = 200
               /\ ValidToken(resp'.token, resp'.at)
               /\ Present(users, resp'.token.claims.sub)
        /\ {r.id : r \in items} \ {r.id : r \in items'} # {}
            => /\ resp'.op = "delete_item"
               /\ Present(users, resp'.token.claims.sub)
               /\ StoredRole(resp'.token) = "admin"
        /\ (resp'.op \in ItemOps /\ resp'.status \in {401, 403, 404}) => items' = items
      ]_vars

\* C20: a read, update or delete request without a valid token is answered
\* 401 and a delete by a user whose role is not "admin" is answered 403,
\* whether or not the item exists; 404 is answered only to a request whose
\* token is valid and, for delete, whose user is an admin.
C20_AuthBeforeExistence ==
    resp.op \in ItemOps \ {"create_item"}
        => /\ ~ValidToken(resp.token, resp.at) => resp.status = 401
           /\ (/\ resp.op = "delete_item"
               /\ resp.identity.status = 200
               /\ resp.identity.user.role # "admin") => resp.status = 403
           /\ resp.status = 404
                  => /\ ~resp.found
                     /\ ValidToken(resp.token, resp.at)
                     /\ resp.identity.status = 200
                     /\ resp.op = "delete_item" => resp.identity.user.role = "admin"

====
